---- MODULE Spec2Model ----
(***************************************************************************)
(* A model of the propagation engine ChainMessagePassing of mp/smp.py.     *)
(*                                                                         *)
(* Python values are tagged records (field k is the Python type).  An      *)
(* argument name is the sequence of its '_'-separated tokens, so that      *)
(* 'up_x_j' is <<"up", "x", "j">>: arg[-2:], arg.startswith('up_') and     *)
(* arg[3:-2] are then operations on the first and last token.  A dict is   *)
(* a function from names to values.  A size list holds integers, with      *)
(* NoneInt for None.                                                       *)
(***************************************************************************)
EXTENDS Integers, Sequences, FiniteSets, TLC

\* ------------------------------------------------------------------ bounds
\* Largest number of cells of a generated complex.
MaxN == 2
\* Largest number of edges of a generated explicit-index adjacency.
MaxE == 2
\* Largest feature width D of a generated feature tensor.
MaxD == 2
\* Largest entry of the literal vectors handed to update.
MaxVal == 4

\* ------------------------------------------------------------------ values
None == [k |-> "None"]
\* inspect.Parameter.empty, the "absent" marker of kwargs.get
empty == [k |-> "empty"]
\* None as an entry of a size list
NoneInt == -1
\* size=None as an argument of propagate
NoSize == <<>>
OK == "ok"

\* A torch.Tensor.  dim 2: rows is a sequence of `width`-long rows.
\* dim 1: rows is a sequence of scalars and width is 0.
Tensor(dtype, dim, rows, width) ==
  [k |-> "Tensor", dtype |-> dtype, dim |-> dim, rows |-> rows, width |-> width]
Feature(rows, width) == Tensor("float", 2, rows, width)
Index(src, tgt) == Tensor("long", 2, <<src, tgt>>, Len(src))
Vector(dtype, xs) == Tensor(dtype, 1, xs, 0)

\* A torch_sparse.SparseTensor in CSR form: entry e is (row[e], col[e]).
SparseTensor(rowptr, row, col, sizes) ==
  [k |-> "SparseTensor", rowptr |-> rowptr, row |-> row, col |-> col,
   value |-> None, sizes |-> sizes]

IntVal(n) == [k |-> "int", v |-> n]
IntOrNone(n) == IF n = NoneInt THEN None ELSE IntVal(n)
SizeList(s) == [k |-> "list", v |-> s]

isTensor(v) == v.k = "Tensor"
isSparseTensor(v) == v.k = "SparseTensor"

\* dict.get(key, default)
get(d, key, default) == IF key \in DOMAIN d THEN d[key] ELSE default
\* d1.update(d2), as a value
dict_update(d1, d2) ==
  [n \in DOMAIN d1 \cup DOMAIN d2 |-> IF n \in DOMAIN d2 THEN d2[n] ELSE d1[n]]
EmptyDict == [n \in {} |-> None]

Range(s) == {s[p] : p \in DOMAIN s}
Perms(S) == {s \in [1..Cardinality(S) -> S] : Range(s) = S}

\* ---------------------------------------------------------- tensor library
AddRows(r1, r2) == [d \in DOMAIN r1 |-> r1[d] + r2[d]]
ZeroRow(width) == [d \in 1..width |-> 0]

\* The sum of the rows src[e] with sel[e] true.
RECURSIVE SumSelected(_, _, _)
SumSelected(rows, sel, acc) ==
  IF rows = <<>> THEN acc
  ELSE SumSelected(Tail(rows), Tail(sel),
                   IF Head(sel) THEN AddRows(acc, Head(rows)) ELSE acc)

MaxOf(xs) == IF xs = <<>> THEN -1 ELSE CHOOSE m \in Range(xs) : \A y \in Range(xs) : y <= m

\* src.index_select(node_dim, index) for a 2-D src and a 1-D index
index_select(src, idx) ==
  IF \E e \in DOMAIN idx : idx[e] < 0 \/ idx[e] >= Len(src.rows)
  THEN [err |-> "IndexError", val |-> None]
  ELSE [err |-> OK,
        val |-> Feature([e \in DOMAIN idx |-> src.rows[idx[e] + 1]], src.width)]

\* The row of CSR entry e (0-based) under rowptr.
RowOf(rowptr, e) ==
  CHOOSE r \in 0..(Len(rowptr) - 2) : rowptr[r + 1] <= e /\ e < rowptr[r + 2]

\* torch_scatter.gather_csr(src, rowptr)
gather_csr(src, rowptr) ==
  IF Len(src.rows) # Len(rowptr) - 1
  THEN [err |-> "RuntimeError", val |-> None]
  ELSE [err |-> OK,
        val |-> Feature([e \in 1..rowptr[Len(rowptr)] |->
                           src.rows[RowOf(rowptr, e - 1) + 1]], src.width)]

\* torch_scatter.scatter(src, index, dim, dim_size=dim_size, reduce='add')
scatter(src, index, dim_size) ==
  LET n == IF dim_size = None THEN MaxOf(index.rows) + 1 ELSE dim_size.v
  IN  IF \/ Len(index.rows) # Len(src.rows)
         \/ \E e \in DOMAIN index.rows : index.rows[e] < 0 \/ index.rows[e] >= n
      THEN [err |-> "RuntimeError", val |-> None]
      ELSE [err |-> OK,
            val |-> Feature([v \in 1..n |->
                      SumSelected(src.rows,
                                  [e \in DOMAIN index.rows |-> index.rows[e] = v - 1],
                                  ZeroRow(src.width))], src.width)]

\* torch_scatter.segment_csr(src, ptr, reduce='add')
segment_csr(src, ptr) ==
  IF ptr.rows[Len(ptr.rows)] # Len(src.rows)
  THEN [err |-> "RuntimeError", val |-> None]
  ELSE [err |-> OK,
        val |-> Feature([r \in 1..(Len(ptr.rows) - 1) |->
                  SumSelected(src.rows,
                              [e \in DOMAIN src.rows |->
                                 ptr.rows[r] <= e - 1 /\ e - 1 < ptr.rows[r + 1]],
                              ZeroRow(src.width))], src.width)]

\* a + b for two tensors of one shape (broadcasting is not modelled: two
\* shapes that differ are an error)
tensor_add(a, b) ==
  IF a.dim # b.dim \/ Len(a.rows) # Len(b.rows) \/ a.width # b.width
  THEN [err |-> "RuntimeError", val |-> None]
  ELSE [err |-> OK,
        val |-> [a EXCEPT !.rows =
                   [n \in DOMAIN a.rows |->
                      IF a.dim = 1 THEN a.rows[n] + b.rows[n]
                      ELSE AddRows(a.rows[n], b.rows[n])]]]

\* ------------------------------------------------------------------ names
\* special_args (smp.py:40)
special_args ==
  { <<"edge", "index">>, <<"adj", "t">>, <<"edge", "index", "i">>,
    <<"edge", "index", "j">>, <<"size">>, <<"size", "i">>, <<"size", "j">>,
    <<"ptr">>, <<"index">>, <<"dim", "size">> }

\* arg[-2:] in ['_i', '_j']
has_endpoint_suffix(arg) == Len(arg) >= 2 /\ arg[Len(arg)] \in {"i", "j"}
\* arg.startswith(direction + '_')
has_direction_prefix(arg, direction) == Len(arg) >= 2 /\ arg[1] = direction
\* arg[3:-2] (direction 'up') or arg[5:-2] (direction 'down')
base_name(arg) == SubSeq(arg, 2, Len(arg) - 1)

\* -------------------------------------------------------------- inspector
\* One declared parameter of a user callable: its name and its default
\* (empty when the parameter is required).
Param(name, default) == [name |-> name, default |-> default]

\* SimplicialInspector.keys(roles): the names declared by the given roles.
inspector_keys(params, roles) ==
  UNION {{params[r][p].name : p \in DOMAIN params[r]} : r \in roles}

\* SimplicialInspector.distribute(role, coll): the keyword arguments of the
\* callable.  A name that coll lacks, or binds to the absent marker
\* Parameter.empty, takes its declared default; without a default that is
\* the missing-argument error.
distribute(params, role, coll) ==
  LET ps == params[role]
  IN  IF \E p \in DOMAIN ps : get(coll, ps[p].name, empty) = empty /\ ps[p].default = empty
      THEN [err |-> "TypeError", val |-> EmptyDict]
      ELSE [err |-> OK,
            val |-> [n \in {ps[p].name : p \in DOMAIN ps} |->
                       IF get(coll, n, empty) = empty
                       THEN ps[CHOOSE p \in DOMAIN ps : ps[p].name = n].default
                       ELSE coll[n]]]

\* ------------------------------------------------------ input validation
\* __check_input_separately__: the resolved size list the_size, a list of
\* its own that propagate binds to up_size / down_size.
check_input_separately(flow, index, size) ==
  IF isTensor(index) THEN
    IF index.dtype # "long" \/ index.dim # 2 \/ Len(index.rows) # 2
    THEN [err |-> "AssertionError", the_size |-> <<NoneInt, NoneInt>>]
    ELSE [err |-> OK,
          the_size |-> IF size # NoSize THEN <<size[1], size[2]>>
                       ELSE <<NoneInt, NoneInt>>]
  ELSE IF isSparseTensor(index) THEN
    IF flow = "target_to_source"
    THEN [err |-> "ValueError:flow", the_size |-> <<NoneInt, NoneInt>>]
    ELSE [err |-> OK,
          the_size |-> <<index.sizes[2], index.sizes[1]>>]
  ELSE IF index = None THEN
    [err |-> OK, the_size |-> <<NoneInt, NoneInt>>]
  ELSE [err |-> "ValueError:index", the_size |-> <<NoneInt, NoneInt>>]

\* __check_input_together__ without its second assertion.
check_input_together_first_only(index_up, index_down, size_up, size_down) ==
  IF index_up # None /\ index_down # None /\ size_up # NoSize /\ size_down # NoSize
  THEN size_up[1] = size_down[1]
  ELSE TRUE

\* __check_input_together__: TRUE when no assertion fails.  size_up and
\* size_down are what propagate passes: NoSize stands for Python's None.
check_input_together(index_up, index_down, size_up, size_down) ==
  IF index_up # None /\ index_down # None /\ size_up # NoSize /\ size_down # NoSize
  THEN size_up[1] = size_down[1] /\ size_up[2] = size_down[2]
  ELSE TRUE

\* ------------------------------------------------------- lifting, collect
\* __set_size__ that does not record the first size it sees.
set_size_unrecorded(size, dim, src) ==
  IF size[dim + 1] # NoneInt /\ size[dim + 1] # Len(src.rows)
  THEN [err |-> "ValueError:size", size |-> size]
  ELSE [err |-> OK, size |-> size]

\* __set_size__(size, dim, src): the size list afterwards, or the error.
set_size(size, dim, src) ==
  LET the_size == size[dim + 1]
  IN  IF the_size = NoneInt
      THEN [err |-> OK, size |-> [size EXCEPT ![dim + 1] = Len(src.rows)]]
      ELSE IF the_size # Len(src.rows)
      THEN [err |-> "ValueError:size", size |-> size]
      ELSE [err |-> OK, size |-> size]

\* __lift__(src, index, dim)
lift(src, index, dim) ==
  IF isTensor(index) THEN index_select(src, index.rows[dim + 1])
  ELSE IF isSparseTensor(index) THEN
    IF dim = 1 THEN gather_csr(src, index.rowptr)
    ELSE IF dim = 0 THEN index_select(src, index.col)
    ELSE [err |-> "ValueError", val |-> None]
  ELSE [err |-> "ValueError", val |-> None]

\* i without the test of the flow
flow_i_forward(flow) == 1

\* i, j = (1, 0) if self.flow == 'source_to_target' else (0, 1)
flow_i(flow) == IF flow = "source_to_target" THEN 1 ELSE 0
flow_j(flow) == IF flow = "source_to_target" THEN 0 ELSE 1

\* lifted_args without the test of the direction prefix (no `continue`).
lifted_args_any_direction(args, index, direction) ==
  {arg \in args : has_endpoint_suffix(arg) /\ index # None}

\* The names of args whose loop iteration reads a tensor of kwargs: an
\* endpoint suffix, an adjacency, and the prefix of the current direction.
\* Every other iteration binds a plain value or does nothing, whatever its
\* place in the iteration order of the set args.
lifted_args(args, index, direction) ==
  {arg \in args : /\ has_endpoint_suffix(arg)
                  /\ index # None
                  /\ has_direction_prefix(arg, direction)}

\* The iterations of the loop of __collect__ over the lifted names, in the
\* order `order`.  log records each __set_size__ call: the slot, the length
\* of the tensor and whether it was accepted.
RECURSIVE collect_loop(_, _, _, _, _, _, _)
collect_loop(flow, order, index, size, kwargs, out, log) ==
  IF order = <<>> THEN [err |-> OK, out |-> out, size |-> size, log |-> log]
  ELSE
    LET arg  == Head(order)
        dim  == IF arg[Len(arg)] = "j" THEN 0 ELSE 1
        data == get(kwargs, base_name(arg), empty)
    IN  IF data.k \in {"tuple", "list"}
        THEN [err |-> "ValueError:format", out |-> out, size |-> size, log |-> log]
        ELSE IF isTensor(data) THEN
          LET s == set_size(size, dim, data)
              l == lift(data, index,
                        IF arg[Len(arg)] = "j" THEN flow_j(flow) ELSE flow_i(flow))
              entry == [dim |-> dim, len |-> Len(data.rows), ok |-> s.err = OK]
          IN  IF s.err # OK
              THEN [err |-> s.err, out |-> out, size |-> size,
                    log |-> Append(log, entry)]
              ELSE IF l.err # OK
              THEN [err |-> l.err, out |-> out, size |-> s.size,
                    log |-> Append(log, entry)]
              ELSE collect_loop(flow, Tail(order), index, s.size, kwargs,
                                dict_update(out, arg :> l.val), Append(log, entry))
        ELSE collect_loop(flow, Tail(order), index, size, kwargs,
                          dict_update(out, arg :> data), log)

\* The derived defaults without the assignment of lines 206-207.
collect_defaults_keeping_index(flow, index, size, direction, out) ==
  LET i == flow_i(flow)
      j == flow_j(flow)
      o1 == IF isTensor(index) THEN
              dict_update(out,
                (<<"adj", "t">> :> None) @@ (<<"ptr">> :> None)
                @@ (<<direction, "index">> :> index)
                @@ (<<direction, "index", "i">> :> Vector("long", index.rows[i + 1]))
                @@ (<<direction, "index", "j">> :> Vector("long", index.rows[j + 1])))
            ELSE IF isSparseTensor(index) THEN
              dict_update(out,
                (<<"edge", "index">> :> None)
                @@ (<<direction, "adj", "t">> :> index)
                @@ (<<direction, "index", "i">> :> Vector("long", index.row))
                @@ (<<direction, "index", "j">> :> Vector("long", index.col))
                @@ (<<direction, "ptr">> :> Vector("long", index.rowptr))
                @@ (<<direction, "weight">> :> index.value)
                @@ (<<direction, "attr">> :> index.value)
                @@ (<<direction, "type">> :> index.value))
            ELSE out
      o2 == o1
      size_i == IF size[2] # NoneInt /\ size[2] # 0 THEN size[2] ELSE size[1]
      size_j == IF size[1] # NoneInt /\ size[1] # 0 THEN size[1] ELSE size[2]
  IN  dict_update(o2,
        (<<direction, "size">> :> SizeList(size))
        @@ (<<direction, "size", "i">> :> IntOrNone(size_i))
        @@ (<<direction, "size", "j">> :> IntOrNone(size_j))
        @@ (<<direction, "dim", "size">> :> IntOrNone(size_i)))

\* The derived default values of __collect__ (smp.py:190-212).
collect_defaults(flow, index, size, direction, out) ==
  LET i == flow_i(flow)
      j == flow_j(flow)
      o1 == IF isTensor(index) THEN
              dict_update(out,
                (<<"adj", "t">> :> None) @@ (<<"ptr">> :> None)
                @@ (<<direction, "index">> :> index)
                @@ (<<direction, "index", "i">> :> Vector("long", index.rows[i + 1]))
                @@ (<<direction, "index", "j">> :> Vector("long", index.rows[j + 1])))
            ELSE IF isSparseTensor(index) THEN
              dict_update(out,
                (<<"edge", "index">> :> None)
                @@ (<<direction, "adj", "t">> :> index)
                @@ (<<direction, "index", "i">> :> Vector("long", index.row))
                @@ (<<direction, "index", "j">> :> Vector("long", index.col))
                @@ (<<direction, "ptr">> :> Vector("long", index.rowptr))
                @@ (<<direction, "weight">> :> index.value)
                @@ (<<direction, "attr">> :> index.value)
                @@ (<<direction, "type">> :> index.value))
            ELSE out
      o2 == IF isTensor(index) \/ isSparseTensor(index)
            THEN dict_update(o1, <<direction, "index">> :> o1[<<direction, "index", "i">>])
            ELSE o1
      size_i == IF size[2] # NoneInt /\ size[2] # 0 THEN size[2] ELSE size[1]
      size_j == IF size[1] # NoneInt /\ size[1] # 0 THEN size[1] ELSE size[2]
  IN  dict_update(o2,
        (<<direction, "size">> :> SizeList(size))
        @@ (<<direction, "size", "i">> :> IntOrNone(size_i))
        @@ (<<direction, "size", "j">> :> IntOrNone(size_j))
        @@ (<<direction, "dim", "size">> :> IntOrNone(size_i)))

\* __collect__(args, index, size, direction, kwargs), the set args being
\* iterated in an order whose lifted names come in the order `order`.
collect(flow, args, order, index, size, direction, kwargs) ==
  LET plain == {arg \in args : ~has_endpoint_suffix(arg)}
      out0  == [arg \in plain |-> get(kwargs, arg, empty)]
      loop  == collect_loop(flow, order, index, size, kwargs, out0, <<>>)
  IN  IF loop.err # OK THEN loop
      ELSE [loop EXCEPT !.out = collect_defaults(flow, index, loop.size, direction, loop.out)]

\* --------------------------------------------------------- user callables
\* message_up / message_down: return up_x_j / down_x_j
message(direction, kw) == [err |-> OK, val |-> kw[<<direction, "x", "j">>]]

\* aggregate that does not hand dim_size to scatter
aggregate_without_dim_size(direction, inputs, kw) ==
  IF kw[<<direction, "ptr">>] # None
  THEN segment_csr(inputs, kw[<<direction, "ptr">>])
  ELSE scatter(inputs, kw[<<direction, "index">>], None)

\* aggregate_up / aggregate_down with aggr 'add'
aggregate(direction, inputs, kw) ==
  IF kw[<<direction, "ptr">>] # None
  THEN segment_csr(inputs, kw[<<direction, "ptr">>])
  ELSE scatter(inputs, kw[<<direction, "index">>], kw[<<direction, "dim", "size">>])

\* message_and_aggregate_up / _down of the base class
message_and_aggregate_default(adj_t, kw) == [err |-> "NotImplementedError", val |-> None]

\* A fused callable (adj_t, x) of a subclass: the sum over each row of adj_t
\* of the rows of x its columns name, which is what message and aggregate
\* compute on the same edges.
message_and_aggregate_override(adj_t, kw) ==
  LET x_j == index_select(kw[<<"x">>], adj_t.col)
  IN  IF x_j.err # OK THEN x_j
      ELSE segment_csr(x_j.val, Vector("long", adj_t.rowptr))

\* update with its first test widened to `or`: x whenever a result is absent.
update_x_if_any_absent(up_inputs, down_inputs, x) ==
  IF up_inputs = None \/ down_inputs = None THEN [err |-> OK, val |-> x]
  ELSE tensor_add(up_inputs, down_inputs)

\* update(up_inputs, down_inputs, x)
update(up_inputs, down_inputs, x) ==
  IF up_inputs = None /\ down_inputs = None THEN [err |-> OK, val |-> x]
  ELSE IF up_inputs = None THEN [err |-> OK, val |-> down_inputs]
  ELSE IF down_inputs = None THEN [err |-> OK, val |-> up_inputs]
  ELSE tensor_add(up_inputs, down_inputs)

\* ---------------------------------------------------------------- engine
\* What __init__ leaves in self: the configuration, the inspected
\* parameters of the callables, the three argument sets and the fuse flags.
Engine(flow, params, fuse_up, fuse_down) ==
  [aggr_up |-> "add", aggr_down |-> "add", flow |-> flow, node_dim |-> -2,
   params |-> params,
   user_args |-> inspector_keys(params, {"message_up", "message_down",
                   "aggregate_up", "aggregate_down"}) \ special_args,
   fused_user_args |-> inspector_keys(params, {"message_and_aggregate_up",
                   "message_and_aggregate_down"}) \ special_args,
   update_user_args |-> inspector_keys(params, {"update"}) \ special_args,
   fuse_up |-> fuse_up, fuse_down |-> fuse_down]

\* The parameters of aggregate_up / aggregate_down after `inputs`.
aggregate_params(direction) ==
  << Param(<<direction, "index">>, empty), Param(<<direction, "ptr">>, None),
     Param(<<direction, "dim", "size">>, None) >>

\* The parameters a fused callable has after its adjacency: none in the base
\* class, x in a subclass that implements it.
fused_params(implemented) == IF implemented THEN << Param(<<"x">>, empty) >> ELSE << >>

\* The signatures of the base class (smp.py:278-363).
BaseParams(fuse_up, fuse_down) ==
  [message_up |-> << Param(<<"up", "x", "j">>, empty), Param(<<"up", "attr">>, empty) >>,
   message_down |-> << Param(<<"down", "x", "j">>, empty), Param(<<"down", "attr">>, empty) >>,
   aggregate_up |-> aggregate_params("up"),
   aggregate_down |-> aggregate_params("down"),
   message_and_aggregate_up |-> fused_params(fuse_up),
   message_and_aggregate_down |-> fused_params(fuse_down),
   update |-> << Param(<<"x">>, empty) >>]

\* A subclass whose messages also declare the target endpoint's features.
EndpointParams ==
  [BaseParams(FALSE, FALSE) EXCEPT
     !.message_up = << Param(<<"up", "x", "j">>, empty), Param(<<"up", "x", "i">>, empty) >>,
     !.message_down = << Param(<<"down", "x", "j">>, empty), Param(<<"down", "x", "i">>, empty) >>]

\* A subclass that lifts a second feature h, in message_down and in update.
TwoFeatureParams ==
  [EndpointParams EXCEPT
     !.message_down = << Param(<<"down", "x", "j">>, empty), Param(<<"down", "h", "j">>, empty) >>,
     !.update = << Param(<<"x">>, empty), Param(<<"up", "h", "j">>, empty),
                   Param(<<"down", "h", "i">>, empty) >>]

\* A subclass whose update also declares up_attr.
AttrUpdateParams ==
  [BaseParams(FALSE, FALSE) EXCEPT
     !.update = << Param(<<"x">>, empty), Param(<<"up", "attr">>, empty) >>]

\* f'{fn}_{direction}', the role of a callable in the inspector
role(fn, direction) ==
  CASE fn = "message" /\ direction = "up" -> "message_up"
    [] fn = "message" /\ direction = "down" -> "message_down"
    [] fn = "aggregate" /\ direction = "up" -> "aggregate_up"
    [] fn = "aggregate" /\ direction = "down" -> "aggregate_down"
    [] fn = "message_and_aggregate" /\ direction = "up" -> "message_and_aggregate_up"
    [] fn = "message_and_aggregate" /\ direction = "down" -> "message_and_aggregate_down"

fuse(eng, direction) == IF direction = "up" THEN eng.fuse_up ELSE eng.fuse_down

\* ------------------------------------------------- message and aggregate
\* The first branch without `and fuse`.
takes_fused_path_any_sparse(eng, index, direction) == isSparseTensor(index)

\* The first branch of __message_and_aggregate__ : the fused path.
takes_fused_path(eng, index, direction) ==
  isSparseTensor(index) /\ fuse(eng, direction)

\* Its elif branch: message and aggregate in separation.
takes_separate_path(eng, index, direction) ==
  /\ ~takes_fused_path(eng, index, direction)
  /\ (isTensor(index) \/ ~fuse(eng, direction))

\* The argument set __message_and_aggregate__ collects.
path_args(eng, index, direction) ==
  IF takes_fused_path(eng, index, direction) THEN eng.fused_user_args
  ELSE eng.user_args

Invocation(fn, direction) == [fn |-> fn, direction |-> direction]

\* What __message_and_aggregate__ hands back: its return value or error,
\* the size list afterwards, the collected mapping, the user callables it
\* invoked (in order) and the __set_size__ log.
Outcome(err, val, c, calls) ==
  [err |-> err, val |-> val, size |-> c.size, coll |-> c.out, calls |-> calls,
   log |-> c.log]

\* return message_and_aggregate(index, **msg_aggr_kwargs)
fused_call(eng, index, direction, c, kw) ==
  IF kw.err # OK THEN Outcome(kw.err, None, c, <<>>)
  ELSE Outcome(IF fuse(eng, direction) THEN message_and_aggregate_override(index, kw.val).err
               ELSE message_and_aggregate_default(index, kw.val).err,
               IF fuse(eng, direction) THEN message_and_aggregate_override(index, kw.val).val
               ELSE message_and_aggregate_default(index, kw.val).val,
               c, << Invocation("message_and_aggregate", direction) >>)

\* out = message(**msg_kwargs); return aggregate(out, **aggr_kwargs)
separate_calls(direction, c, msg_kwargs, aggr_kwargs) ==
  IF msg_kwargs.err # OK THEN Outcome(msg_kwargs.err, None, c, <<>>)
  ELSE IF aggr_kwargs.err # OK
  THEN Outcome(aggr_kwargs.err, None, c, << Invocation("message", direction) >>)
  ELSE Outcome(aggregate(direction, message(direction, msg_kwargs.val).val,
                         aggr_kwargs.val).err,
               aggregate(direction, message(direction, msg_kwargs.val).val,
                         aggr_kwargs.val).val,
               c, << Invocation("message", direction),
                     Invocation("aggregate", direction) >>)

\* The body of __message_and_aggregate__ once coll_dict = c is collected.
dispatch(eng, index, direction, c) ==
  IF c.err # OK THEN Outcome(c.err, None, [c EXCEPT !.out = EmptyDict], <<>>)
  ELSE IF takes_fused_path(eng, index, direction)
  THEN fused_call(eng, index, direction, c,
                  distribute(eng.params, role("message_and_aggregate", direction), c.out))
  ELSE separate_calls(direction, c,
                      distribute(eng.params, role("message", direction), c.out),
                      distribute(eng.params, role("aggregate", direction), c.out))

\* __message_and_aggregate__(index, direction, size, **kwargs), the lifted
\* names being collected in the order `order`.
message_and_aggregate(eng, index, direction, size, kwargs, order) ==
  IF takes_fused_path(eng, index, direction) \/ takes_separate_path(eng, index, direction)
  THEN dispatch(eng, index, direction,
                collect(eng.flow, path_args(eng, index, direction), order, index,
                        size, direction, kwargs))
  ELSE [err |-> OK, val |-> None, size |-> size, coll |-> EmptyDict,
        calls |-> <<>>, log |-> <<>>]

\* ------------------------------------------------------------------ state
VARIABLES
  engine,   \* the engine instance: what __init__ left in self
  fr,       \* fr[t]: the frame of caller t's propagate call
  mode,     \* the harness: which engines and arguments the callers use
  u         \* the literal-tensor check of update

vars == <<engine, fr, mode, u>>

Threads == {1, 2}
Directions == {"up", "down"}

NoArgs ==
  [index |-> [up |-> None, down |-> None],
   size |-> [up |-> NoSize, down |-> NoSize],
   kwargs |-> EmptyDict]

\* A frame of propagate.  args are the caller's objects; size, out, coll are
\* the locals up_size/down_size, up_out/down_out and up_coll_dict/
\* down_coll_dict; msg_coll is the coll_dict of __message_and_aggregate__;
\* calls lists the user callables invoked so far, log the __set_size__ calls;
\* pc is the line of propagate the call is at.
IdleFrame ==
  [pc |-> "idle", args |-> NoArgs,
   size |-> [up |-> NoSize, down |-> NoSize],
   out |-> [up |-> None, down |-> None],
   msg_coll |-> [up |-> EmptyDict, down |-> EmptyDict],
   coll |-> [up |-> EmptyDict, down |-> EmptyDict],
   calls |-> <<>>,
   log |-> [up |-> <<>>, down |-> <<>>],
   update_kwargs |-> EmptyDict,
   ret |-> None, err |-> OK, at |-> "none"]

\* An exception leaves propagate: at is the line that raised it.
Raise(f, e) == [f EXCEPT !.pc = "raised", !.err = e, !.at = f.pc]

\* ------------------------------------------------------------- arguments
\* Features [[1], [2], ..., [n]] and a second feature of n rows.
X(n) == Feature([v \in 1..n |-> <<v>>], 1)
H(n) == Feature([v \in 1..n |-> <<10 * v>>], 1)
\* The path 0 -> 1 -> 2 -> 3 on four cells.
PathIndex == Index(<<0, 1, 2>>, <<1, 2, 3>>)
\* Three cells, edges 0 -> 1, 0 -> 2, 1 -> 2: cell 2 has two incoming edges.
FanIndex == Index(<<0, 0, 1>>, <<1, 2, 2>>)
\* The same edges as a transposed sparse adjacency (row = target).
FanAdjT == SparseTensor(<<0, 0, 1, 3>>, <<1, 2, 2>>, <<0, 0, 1>>, <<3, 3>>)
\* Adjacencies that validation rejects.
FloatIndex == Tensor("float", 2, <<<<0, 1, 2>>, <<1, 2, 3>>>>, 3)
FlatIndex == Vector("long", <<0, 1, 2>>)
ThreeRowIndex == Tensor("long", 2, <<<<0, 1>>, <<1, 2>>, <<2, 0>>>>, 2)
ListIndex == [k |-> "list", v |-> <<<<0, 1>>, <<1, 2>>>>]

ValidAdj == {PathIndex, FanIndex, FanAdjT}
InvalidAdj == {FloatIndex, FlatIndex, ThreeRowIndex, ListIndex}
DeclaredSizes == {<<3, 3>>, <<3, 4>>, <<4, 4>>}

Bag(x, h, attrs) ==
  (<<"x">> :> x)
  @@ (IF h = None THEN EmptyDict ELSE <<"h">> :> h)
  @@ (IF attrs THEN (<<"up", "attr">> :> IntVal(1)) @@ (<<"down", "attr">> :> IntVal(2))
      ELSE EmptyDict)

Args(up_index, down_index, up_size, down_size, kwargs) ==
  [index |-> [up |-> up_index, down |-> down_index],
   size |-> [up |-> up_size, down |-> down_size],
   kwargs |-> kwargs]

\* The dispatch harness: every pairing of adjacencies, declared sizes and
\* bags, on base-class engines with every choice of fused callables and on
\* the two-feature subclass.
DispatchEngines ==
  {Engine(flow, BaseParams(fu, fd), fu, fd) :
     flow \in {"source_to_target", "target_to_source"}, fu \in BOOLEAN, fd \in BOOLEAN}
  \cup {Engine(flow, TwoFeatureParams, FALSE, FALSE) :
     flow \in {"source_to_target", "target_to_source"}}
  \cup {Engine("source_to_target", AttrUpdateParams, FALSE, FALSE)}

DispatchArgs ==
  {Args(ui, di, us, ds, Bag(x, h, TRUE)) :
     ui \in {None} \cup ValidAdj \cup InvalidAdj,
     di \in {None} \cup ValidAdj \cup InvalidAdj,
     us \in {NoSize} \cup DeclaredSizes,
     ds \in {NoSize} \cup DeclaredSizes,
     x \in {X(3), X(4)}, h \in {None, H(3), H(4)}}

\* The graphs harness: one adjacency, up or down, over every explicit index
\* of at most MaxE edges on at most MaxN cells, with features of every
\* width up to MaxD, on the endpoint subclass under both flows; and the path
\* on four cells.
Cells(n) == 0..(n - 1)
\* Row v of F(n, d) is <<10v + 1, ..., 10v + d>>: no two rows are equal.
F(n, d) == Feature([v \in 1..n |-> [c \in 1..d |-> 10 * v + c]], d)

GraphEngines ==
  {Engine(flow, EndpointParams, FALSE, FALSE) :
     flow \in {"source_to_target", "target_to_source"}}

\* propagate(index, None, x=x) when up, propagate(None, index, x=x) otherwise.
GraphCall(index, x, up) ==
  IF up THEN Args(index, None, NoSize, NoSize, Bag(x, None, TRUE))
  ELSE Args(None, index, NoSize, NoSize, Bag(x, None, TRUE))

\* Every index of e <= MaxE edges on n <= MaxN cells: the first e entries of
\* src and tgt, taken modulo n.
GraphArgs ==
  {GraphCall(Index([k \in 1..e |-> src[k] % n], [k \in 1..e |-> tgt[k] % n]),
             F(n, d), up) :
     n \in 1..MaxN, e \in 0..MaxE,
     src \in [1..MaxE -> Cells(MaxN)], tgt \in [1..MaxE -> Cells(MaxN)],
     d \in 1..MaxD, up \in BOOLEAN}
  \cup {GraphCall(PathIndex, X(4), TRUE)}

\* The reentrant harness: two callers of one engine, whose calls interleave.
ReentrantEngines ==
  {Engine("source_to_target", BaseParams(TRUE, FALSE), TRUE, FALSE),
   Engine("source_to_target", TwoFeatureParams, FALSE, FALSE)}

ReentrantArgs ==
  {Args(ui, di, NoSize, ds, Bag(X(3), h, TRUE)) :
     ui \in {FanAdjT, FanIndex}, di \in {None, FanIndex, FloatIndex},
     ds \in {<<3, 3>>}, h \in {H(3), H(4)}}

EnginesOf(m) ==
  CASE m = "dispatch" -> DispatchEngines
    [] m = "graphs" -> GraphEngines
    [] m = "reentrant" -> ReentrantEngines
    [] OTHER -> {Engine("source_to_target", BaseParams(FALSE, FALSE), FALSE, FALSE)}

ArgsOf(m) ==
  CASE m = "dispatch" -> DispatchArgs
    [] m = "graphs" -> GraphArgs
    [] m = "reentrant" -> ReentrantArgs
    [] OTHER -> {}

CallersOf(m) == IF m = "reentrant" THEN Threads ELSE {1}

\* ---------------------------------------------------------------- actions
\* A caller enters propagate(up_index, down_index, up_size, down_size, **kwargs).
Propagate(t) ==
  /\ t \in CallersOf(mode)
  /\ fr[t].pc = "idle"
  /\ \E a \in ArgsOf(mode) :
       fr' = [fr EXCEPT ![t] = [IdleFrame EXCEPT !.pc = "L257", !.args = a,
                                                  !.size = a.size]]
  /\ UNCHANGED <<engine, mode, u>>

\* up_size = self.__check_input_separately__(up_index, up_size), and the
\* same for down.
check_step(f, d, next) ==
  LET r == check_input_separately(engine.flow, f.args.index[d], f.size[d])
  IN  IF r.err # OK THEN Raise(f, r.err)
      ELSE [f EXCEPT !.size[d] = r.the_size, !.pc = next]

CheckUp(t) ==
  /\ fr[t].pc = "L257"
  /\ fr' = [fr EXCEPT ![t] = check_step(fr[t], "up", "L258")]
  /\ UNCHANGED <<engine, mode, u>>

\* propagate without the validation of down_index.
CheckDownSkipped(t) ==
  /\ fr[t].pc = "L258"
  /\ fr' = [fr EXCEPT ![t].pc = "L259",
                      ![t].size.down = IF fr[t].size.down = NoSize
                                       THEN <<NoneInt, NoneInt>> ELSE fr[t].size.down]
  /\ UNCHANGED <<engine, mode, u>>

CheckDown(t) ==
  /\ fr[t].pc = "L258"
  /\ fr' = [fr EXCEPT ![t] = check_step(fr[t], "down", "L259")]
  /\ UNCHANGED <<engine, mode, u>>

\* self.__check_input_together__(up_index, down_index, up_size, down_size)
CheckTogether(t) ==
  /\ fr[t].pc = "L259"
  /\ LET f == fr[t]
     IN  fr' = [fr EXCEPT ![t] =
                  IF check_input_together(f.args.index.up, f.args.index.down,
                                          f.size.up, f.size.down)
                  THEN [f EXCEPT !.pc = "L262"]
                  ELSE Raise(f, "AssertionError:size")]
  /\ UNCHANGED <<engine, mode, u>>

\* if index is not None: out = self.__message_and_aggregate__(index, d, size, **kwargs)
path_result(f, d, next, r) ==
  IF r.err # OK
  THEN [f EXCEPT !.size[d] = r.size, !.msg_coll[d] = r.coll,
                 !.calls = f.calls \o r.calls, !.log[d] = f.log[d] \o r.log,
                 !.pc = "raised", !.err = r.err, !.at = f.pc]
  ELSE [f EXCEPT !.size[d] = r.size, !.msg_coll[d] = r.coll,
                 !.calls = f.calls \o r.calls, !.log[d] = f.log[d] \o r.log,
                 !.out[d] = r.val, !.pc = next]

path_step(f, d, next, order) ==
  path_result(f, d, next,
              message_and_aggregate(engine, f.args.index[d], d, f.size[d],
                                    f.args.kwargs, order))

path_orders(f, d) ==
  Perms(lifted_args(path_args(engine, f.args.index[d], d), f.args.index[d], d))

\* The up path storing its fused-path decision in self.fuse_up.
UpPathStoringFuse(t) ==
  /\ fr[t].pc = "L262"
  /\ IF fr[t].args.index.up # None
     THEN \E order \in path_orders(fr[t], "up") :
            fr' = [fr EXCEPT ![t] = path_step(fr[t], "up", "L265", order)]
     ELSE fr' = [fr EXCEPT ![t].pc = "L265"]
  /\ engine' = [engine EXCEPT !.fuse_up =
                  takes_fused_path(engine, fr[t].args.index.up, "up")]
  /\ UNCHANGED <<mode, u>>

UpPath(t) ==
  /\ fr[t].pc = "L262"
  /\ IF fr[t].args.index.up # None
     THEN \E order \in path_orders(fr[t], "up") :
            fr' = [fr EXCEPT ![t] = path_step(fr[t], "up", "L265", order)]
     ELSE fr' = [fr EXCEPT ![t].pc = "L265"]
  /\ UNCHANGED <<engine, mode, u>>

\* The down path without the test `if down_index is not None`.
DownPathUnguarded(t) ==
  /\ fr[t].pc = "L265"
  /\ \E order \in path_orders(fr[t], "down") :
       fr' = [fr EXCEPT ![t] = path_step(fr[t], "down", "L269", order)]
  /\ UNCHANGED <<engine, mode, u>>

DownPath(t) ==
  /\ fr[t].pc = "L265"
  /\ IF fr[t].args.index.down # None
     THEN \E order \in path_orders(fr[t], "down") :
            fr' = [fr EXCEPT ![t] = path_step(fr[t], "down", "L269", order)]
     ELSE fr' = [fr EXCEPT ![t].pc = "L269"]
  /\ UNCHANGED <<engine, mode, u>>

\* coll = self.__collect__(self.__update_user_args__, index, size, d, kwargs)
collect_result(f, d, next, c) ==
  IF c.err # OK
  THEN [f EXCEPT !.size[d] = c.size, !.log[d] = f.log[d] \o c.log,
                 !.pc = "raised", !.err = c.err, !.at = f.pc]
  ELSE [f EXCEPT !.size[d] = c.size, !.log[d] = f.log[d] \o c.log,
                 !.coll[d] = c.out, !.pc = next]

collect_step(f, d, next, order) ==
  collect_result(f, d, next,
                 collect(engine.flow, engine.update_user_args, order,
                         f.args.index[d], f.size[d], d, f.args.kwargs))

collect_orders(f, d) ==
  Perms(lifted_args(engine.update_user_args, f.args.index[d], d))

CollectUp(t) ==
  /\ fr[t].pc = "L269"
  /\ \E order \in collect_orders(fr[t], "up") :
       fr' = [fr EXCEPT ![t] = collect_step(fr[t], "up", "L271", order)]
  /\ UNCHANGED <<engine, mode, u>>

CollectDown(t) ==
  /\ fr[t].pc = "L271"
  /\ \E order \in collect_orders(fr[t], "down") :
       fr' = [fr EXCEPT ![t] = collect_step(fr[t], "down", "L273", order)]
  /\ UNCHANGED <<engine, mode, u>>

\* coll_dict.update(up_coll_dict); coll_dict.update(down_coll_dict);
\* return self.update(up_out, down_out, **update_kwargs)
update_return(f, r) ==
  IF r.err # OK
  THEN [f EXCEPT !.calls = Append(f.calls, Invocation("update", "both")),
                 !.pc = "raised", !.err = r.err, !.at = f.pc]
  ELSE [f EXCEPT !.calls = Append(f.calls, Invocation("update", "both")),
                 !.ret = r.val, !.pc = "returned"]

update_result(f, update_kwargs) ==
  IF update_kwargs.err # OK THEN Raise(f, update_kwargs.err)
  ELSE update_return([f EXCEPT !.update_kwargs = update_kwargs.val],
                     update(f.out.up, f.out.down, update_kwargs.val[<<"x">>]))

\* The update step with the two coll_dict.update calls in the other order.
update_step_up_last(f) ==
  update_result(f, distribute(engine.params, "update",
                              dict_update(dict_update(EmptyDict, f.coll.down), f.coll.up)))

update_step(f) ==
  update_result(f, distribute(engine.params, "update",
                              dict_update(dict_update(EmptyDict, f.coll.up), f.coll.down)))

Update(t) ==
  /\ fr[t].pc = "L273"
  /\ fr' = [fr EXCEPT ![t] = update_step(fr[t])]
  /\ UNCHANGED <<engine, mode, u>>

\* The call is over: its frame is gone, and the caller may call again.
Return(t) ==
  /\ fr[t].pc \in {"returned", "raised"}
  /\ fr' = [fr EXCEPT ![t] = IdleFrame]
  /\ UNCHANGED <<engine, mode, u>>

\* update(up_inputs, down_inputs, x) on the literal tensors of u.
ApplyUpdate ==
  /\ u.pc = "ready"
  /\ u' = [u EXCEPT !.pc = "done",
                     !.err = update(u.up_inputs, u.down_inputs, u.x).err,
                     !.ret = update(u.up_inputs, u.down_inputs, u.x).val]
  /\ UNCHANGED <<engine, fr, mode>>

NoUpdateCheck == [pc |-> "off", up_inputs |-> None, down_inputs |-> None, x |-> None,
                  ret |-> None, err |-> OK]

\* The literal tensors update is tried on: [a, b] with entries up to MaxVal.
Literals == {Vector("float", <<a, b>>) : a \in 0..MaxVal, b \in 0..MaxVal}

Harness(m) ==
  /\ mode = m
  /\ engine \in EnginesOf(m)
  /\ fr = [t \in Threads |-> IdleFrame]

Init == Harness("dispatch") /\ u = NoUpdateCheck

InitGraphs == Harness("graphs") /\ u = NoUpdateCheck

InitReentrant == Harness("reentrant") /\ u = NoUpdateCheck

InitUpdate ==
  /\ Harness("update")
  /\ u \in [pc : {"ready"}, up_inputs : {None} \cup Literals,
            down_inputs : {None} \cup Literals \cup {Vector("float", <<1, 2, 3>>)},
            x : Literals, ret : {None}, err : {OK}]

Next ==
  \E t \in Threads :
    \/ Propagate(t) \/ CheckUp(t) \/ CheckDown(t) \/ CheckTogether(t)
    \/ UpPath(t) \/ DownPath(t) \/ CollectUp(t) \/ CollectDown(t)
    \/ Update(t) \/ Return(t)

Spec == Init /\ [][Next]_vars

SpecGraphs == InitGraphs /\ [][Next]_vars

SpecReentrant == InitReentrant /\ [][Next]_vars

SpecUpdate == InitUpdate /\ [][ApplyUpdate]_vars

\* ================================================================ claims
\* The line of propagate a call has reached: the line it is at, or the line
\* that raised.
LineOf(pc) ==
  CASE pc = "idle" -> 0
    [] pc = "L257" -> 257 [] pc = "L258" -> 258 [] pc = "L259" -> 259
    [] pc = "L262" -> 262 [] pc = "L265" -> 265 [] pc = "L269" -> 269
    [] pc = "L271" -> 271 [] pc = "L273" -> 273 [] pc = "returned" -> 277
Reached(f) == IF f.pc = "raised" THEN LineOf(f.at) ELSE LineOf(f.pc)

\* An explicit-index adjacency that validation accepts.
IsExplicit(index) ==
  isTensor(index) /\ index.dtype = "long" /\ index.dim = 2 /\ Len(index.rows) = 2

\* C1: the default update returns x when both directional results are None,
\* the one result that is not None when exactly one is, and the elementwise
\* sum when both are present (up = [1, 2], down = [3, 4] gives [4, 6]); it
\* leaves up_inputs, down_inputs and x as they were.
C1_UpdateDefault ==
  [][(u.pc = "ready" /\ u'.pc = "done") =>
       /\ u'.up_inputs = u.up_inputs /\ u'.down_inputs = u.down_inputs /\ u'.x = u.x
       /\ (u.up_inputs = None /\ u.down_inputs = None => u'.ret = u.x)
       /\ (u.up_inputs = None /\ u.down_inputs # None => u'.ret = u.down_inputs)
       /\ (u.up_inputs # None /\ u.down_inputs = None => u'.ret = u.up_inputs)
       /\ (u.up_inputs # None /\ u.down_inputs # None
             /\ Len(u.up_inputs.rows) = Len(u.down_inputs.rows)
           => /\ u'.err = OK
              /\ u'.ret = Vector("float", [n \in DOMAIN u.up_inputs.rows |->
                                   u.up_inputs.rows[n] + u.down_inputs.rows[n]]))
       /\ (u.up_inputs = Vector("float", <<1, 2>>) /\ u.down_inputs = Vector("float", <<3, 4>>)
           => u'.ret = Vector("float", <<4, 6>>))]_vars

C1_Witness ==
  /\ u.pc = "done"
  /\ u.up_inputs = Vector("float", <<1, 2>>)
  /\ u.down_inputs = Vector("float", <<3, 4>>)
  /\ u.ret = Vector("float", <<4, 6>>)

\* C2: with two explicit-index adjacencies and two declared sizes, equal
\* size pairs never fail the size-agreement check of line 259, and size
\* pairs that differ (in either component) fail it, before any user
\* callable is invoked.
C2_DeclaredSizesAgree ==
  \A t \in Threads :
    LET f == fr[t]
    IN  ( /\ f.pc # "idle"
          /\ IsExplicit(f.args.index.up) /\ IsExplicit(f.args.index.down)
          /\ f.args.size.up # NoSize /\ f.args.size.down # NoSize )
        => IF f.args.size.up = f.args.size.down
           THEN ~(f.pc = "raised" /\ f.at = "L259")
           ELSE /\ Reached(f) <= 259
                /\ f.calls = <<>>
                /\ (f.pc = "raised" => f.at = "L259" /\ f.err = "AssertionError:size")

C2_Witness ==
  \E t \in Threads :
    /\ fr[t].pc = "raised" /\ fr[t].at = "L259" /\ fr[t].calls = <<>>
    /\ IsExplicit(fr[t].args.index.up) /\ IsExplicit(fr[t].args.index.down)
    /\ fr[t].args.size.up = <<3, 4>> /\ fr[t].args.size.down = <<3, 3>>

\* C3: the size-agreement check raises only when both adjacencies are
\* explicit-index tensors and both sizes were declared; with a size left
\* undeclared, or a compressed sparse adjacency, it never raises.
C3_CheckOnlyExplicitAndDeclared ==
  \A t \in Threads :
    (fr[t].pc = "raised" /\ fr[t].at = "L259")
    => /\ IsExplicit(fr[t].args.index.up) /\ IsExplicit(fr[t].args.index.down)
       /\ fr[t].args.size.up # NoSize /\ fr[t].args.size.down # NoSize

\* An adjacency that validation must reject under the engine's flow.
IsRejected(index) ==
  \/ isTensor(index) /\ ~IsExplicit(index)
  \/ index.k \notin {"Tensor", "SparseTensor", "None"}
  \/ isSparseTensor(index) /\ engine.flow = "target_to_source"

\* C8: when either adjacency is invalid (wrong dtype, rank or row count, an
\* unsupported representation, or compressed sparse under flow
\* 'target_to_source'), propagate raises at line 257 or 258 and no user
\* callable of either direction is invoked; the call goes no further.
C8_ValidationFirst ==
  \A t \in Threads :
    LET f == fr[t]
    IN  (f.pc # "idle" /\ (IsRejected(f.args.index.up) \/ IsRejected(f.args.index.down)))
        => /\ Reached(f) <= 258
           /\ f.calls = <<>>
           /\ (f.pc = "raised" =>
                 f.err \in {"AssertionError", "ValueError:index", "ValueError:flow"})
           /\ (f.pc = "L258" => ~IsRejected(f.args.index.up))

C8_Witness ==
  \E t \in Threads :
    /\ fr[t].pc = "raised" /\ fr[t].at = "L258" /\ fr[t].calls = <<>>
    /\ fr[t].args.index.up = PathIndex
    /\ fr[t].args.index.down = FloatIndex

\* The rows of x at the endpoints that row `row` (0 or 1) of index names.
RowsAt(x, index, row) ==
  [e \in DOMAIN index.rows[row + 1] |-> x.rows[index.rows[row + 1][e] + 1]]
\* The adjacency row of the target endpoints, and of the source endpoints.
TargetRow == IF engine.flow = "source_to_target" THEN 1 ELSE 0
SourceRow == IF engine.flow = "source_to_target" THEN 0 ELSE 1

\* C4: for an explicit-index adjacency of E edges and features x of shape
\* [N, D], __collect__ binds '<direction>_x_i' to the [E, D] tensor whose row
\* k is the row of x at the target endpoint of edge k, and '<direction>_x_j'
\* to the rows at the source endpoints; the target is adjacency row 1 and
\* the source row 0 under 'source_to_target', and the reverse under
\* 'target_to_source'.
C4_LiftEndpoints ==
  \A t \in Threads : \A d \in Directions :
    LET f == fr[t]
        index == f.args.index[d]
        x == f.args.kwargs[<<"x">>]
        c == f.msg_coll[d]
    IN  (mode = "graphs" /\ IsExplicit(index) /\ c # EmptyDict)
        => /\ c[<<d, "x", "i">>] = Feature(RowsAt(x, index, TargetRow), x.width)
           /\ c[<<d, "x", "j">>] = Feature(RowsAt(x, index, SourceRow), x.width)
           /\ Len(c[<<d, "x", "i">>].rows) = Len(index.rows[1])
           /\ f.err = OK

C4_Witness ==
  \E t \in Threads :
    /\ mode = "graphs" /\ engine.flow = "target_to_source"
    /\ fr[t].args.index.down = Index(<<0, 1>>, <<1, 1>>)
    /\ fr[t].msg_coll.down # EmptyDict
    /\ fr[t].args.kwargs[<<"x">>] = F(2, 2)
    /\ fr[t].msg_coll.down[<<"down", "x", "i">>].rows = << <<11, 12>>, <<21, 22>> >>
    /\ fr[t].msg_coll.down[<<"down", "x", "j">>].rows = << <<21, 22>>, <<21, 22>> >>

\* The sum of the rows of x at the sources of the first k edges of index
\* whose target is cell v.
RECURSIVE IncomingSum(_, _, _, _)
IncomingSum(x, index, v, k) ==
  IF k = 0 THEN ZeroRow(x.width)
  ELSE IF index.rows[2][k] = v
       THEN AddRows(IncomingSum(x, index, v, k - 1), x.rows[index.rows[1][k] + 1])
       ELSE IncomingSum(x, index, v, k - 1)

\* C5: up-adjacency-only propagate over an explicit index, under forward
\* flow, sum aggregation and the identity message, returns one row per cell,
\* the row of cell v being the sum of the messages of the edges whose target
\* is v and the zero row when there is none; the path on 4 cells with
\* features [[1], [2], [3], [4]] gives [0, 1, 2, 3].
C5_EndToEndSum ==
  \A t \in Threads :
    LET f == fr[t]
        index == f.args.index.up
        x == f.args.kwargs[<<"x">>]
    IN  ( /\ mode = "graphs" /\ engine.flow = "source_to_target"
          /\ IsExplicit(index) /\ f.args.index.down = None )
        => /\ f.pc # "raised"
           /\ (f.pc = "returned" =>
                 /\ f.ret = Feature([v \in 1..Len(x.rows) |->
                                       IncomingSum(x, index, v - 1, Len(index.rows[1]))],
                                    x.width)
                 /\ (index = PathIndex /\ x = X(4)
                     => f.ret.rows = << <<0>>, <<1>>, <<2>>, <<3>> >>))

C5_Witness ==
  \E t \in Threads :
    /\ mode = "graphs" /\ engine.flow = "source_to_target"
    /\ fr[t].pc = "returned"
    /\ fr[t].args.index.up = PathIndex /\ fr[t].args.index.down = None
    /\ fr[t].args.kwargs[<<"x">>].rows = << <<1>>, <<2>>, <<3>>, <<4>> >>
    /\ fr[t].ret.rows = << <<0>>, <<1>>, <<2>>, <<3>> >>

\* The user callables one direction's path must invoke, and those a frame
\* has invoked for it.
ExpectedCalls(d, index) ==
  IF fuse(engine, d) /\ isSparseTensor(index)
  THEN << Invocation("message_and_aggregate", d) >>
  ELSE << Invocation("message", d), Invocation("aggregate", d) >>
CallsIn(f, d) == SelectSeq(f.calls, LAMBDA c : c.direction = d)
IsPrefix(a, b) == Len(a) <= Len(b) /\ SubSeq(b, 1, Len(a)) = a
PathLine(d) == IF d = "up" THEN 262 ELSE 265

\* C6: for each present direction propagate runs exactly one path: the fused
\* callable alone if and only if it is implemented and the adjacency is
\* compressed sparse, otherwise message and then aggregate; once the path's
\* line is passed one of the two has run, and NotImplementedError is never
\* raised.
C6_OnePathPerDirection ==
  \A t \in Threads : \A d \in Directions :
    LET f == fr[t]
        index == f.args.index[d]
    IN  (f.pc # "idle" /\ index # None)
        => /\ IsPrefix(CallsIn(f, d), ExpectedCalls(d, index))
           /\ (Reached(f) > PathLine(d) => CallsIn(f, d) = ExpectedCalls(d, index))
           /\ (Reached(f) < PathLine(d) => CallsIn(f, d) = <<>>)
           /\ f.err # "NotImplementedError"

C6_Witness ==
  \E t \in Threads :
    /\ fr[t].pc = "returned"
    /\ engine.fuse_up /\ engine.fuse_down
    /\ isSparseTensor(fr[t].args.index.up) /\ isTensor(fr[t].args.index.down)
    /\ fr[t].calls = << Invocation("message_and_aggregate", "up"),
                        Invocation("message", "down"), Invocation("aggregate", "down"),
                        Invocation("update", "both") >>

\* The mappings __collect__ has returned to a frame, each with the names it
\* was asked for, its direction and its adjacency.
Collected(f) ==
  {[out |-> f.msg_coll[d], names |-> path_args(engine, f.args.index[d], d),
    direction |-> d, index |-> f.args.index[d]] : d \in {e \in Directions : f.msg_coll[e] # EmptyDict}}
  \cup
  {[out |-> f.coll[d], names |-> engine.update_user_args,
    direction |-> d, index |-> f.args.index[d]] : d \in {e \in Directions : f.coll[e] # EmptyDict}}

\* C7: the mapping __collect__ returns has a key for every requested name.
C7_EveryRequestedNameBound ==
  \A t \in Threads : \A c \in Collected(fr[t]) : c.names \subseteq DOMAIN c.out

\* The derived names of __collect__ for a direction and an adjacency.
DerivedNames(d, index) ==
  {<<d, "size">>, <<d, "size", "i">>, <<d, "size", "j">>, <<d, "dim", "size">>}
  \cup (IF isTensor(index)
        THEN {<<"adj", "t">>, <<"ptr">>, <<d, "index">>, <<d, "index", "i">>,
              <<d, "index", "j">>}
        ELSE IF isSparseTensor(index)
        THEN {<<"edge", "index">>, <<d, "adj", "t">>, <<d, "index">>, <<d, "index", "i">>,
              <<d, "index", "j">>, <<d, "ptr">>, <<d, "weight">>, <<d, "attr">>,
              <<d, "type">>}
        ELSE {})

\* C7, amended: the mapping __collect__ returns has exactly these keys: every
\* requested name without an endpoint suffix; every requested
\* endpoint-suffixed name that carries the prefix of the current direction,
\* when the adjacency is present; and the derived names.  A requested
\* endpoint-suffixed name of the other direction, or any when the adjacency
\* is absent, gets no key.
C7_RequestedNamesBound ==
  \A t \in Threads : \A c \in Collected(fr[t]) :
    DOMAIN c.out =
      {n \in c.names : ~has_endpoint_suffix(n)}
      \cup {n \in c.names : /\ has_endpoint_suffix(n)
                            /\ has_direction_prefix(n, c.direction)
                            /\ c.index # None}
      \cup DerivedNames(c.direction, c.index)

C7_Witness ==
  \E t \in Threads :
    /\ fr[t].msg_coll.up # EmptyDict
    /\ <<"down", "x", "j">> \in engine.user_args
    /\ <<"down", "x", "j">> \notin DOMAIN fr[t].msg_coll.up
    /\ <<"up", "x", "j">> \in DOMAIN fr[t].msg_coll.up
    /\ fr[t].coll.down # EmptyDict /\ fr[t].args.index.down = None
    /\ <<"down", "h", "i">> \in engine.update_user_args
    /\ <<"down", "h", "i">> \notin DOMAIN fr[t].coll.down

\* The size list validation resolves for a direction, from the arguments.
ResolvedSize(f, d) ==
  IF isTensor(f.args.index[d]) /\ f.args.size[d] # NoSize THEN f.args.size[d]
  ELSE IF isSparseTensor(f.args.index[d])
  THEN <<f.args.index[d].sizes[2], f.args.index[d].sizes[1]>>
  ELSE <<NoneInt, NoneInt>>

\* The length of the first tensor a frame lifted for slot s of direction d.
FirstLifted(f, d, s) ==
  f.log[d][CHOOSE p \in DOMAIN f.log[d] :
             /\ f.log[d][p].dim = s
             /\ \A q \in 1..(p - 1) : f.log[d][q].dim # s].len

DeclaredOrFirst(f, d, s) ==
  IF f.args.size[d] # NoSize THEN f.args.size[d][s + 1] ELSE FirstLifted(f, d, s)

ResolvedOrFirst(f, d, s) ==
  IF ResolvedSize(f, d)[s + 1] # NoneInt THEN ResolvedSize(f, d)[s + 1]
  ELSE FirstLifted(f, d, s)

SlotCount(f, d, s, resolved) ==
  IF resolved THEN ResolvedOrFirst(f, d, s) ELSE DeclaredOrFirst(f, d, s)

\* Every tensor lifted is accepted exactly when its length is the slot's
\* count, a rejected one ends the call with the size-mismatch error, and that
\* error has no other cause.
SlotSizeFixed(resolved) ==
  \A t \in Threads :
    LET f == fr[t]
    IN  /\ \A d \in Directions : \A p \in DOMAIN f.log[d] :
             /\ f.log[d][p].ok <=>
                  f.log[d][p].len = SlotCount(f, d, f.log[d][p].dim, resolved)
             /\ ~f.log[d][p].ok =>
                  p = Len(f.log[d]) /\ f.pc = "raised" /\ f.err = "ValueError:size"
        /\ (f.pc = "raised" /\ f.err = "ValueError:size")
           => \E d \in Directions :
                f.log[d] # <<>> /\ ~f.log[d][Len(f.log[d])].ok

\* C9: within one call and direction, the endpoint count of each slot is the
\* declared size if given, otherwise the length of the first tensor lifted
\* for the slot; a tensor lifted for the slot (in the message/aggregate or
\* the update collection) fails with the size-mismatch error exactly when
\* its length differs.
C9_DeclaredOrFirstLifted == SlotSizeFixed(FALSE)

\* C9, amended: the endpoint count of each slot is the size validation
\* resolved: the declared size if given with an explicit index, the sparse
\* tensor's own sizes (its columns for slot 0, its rows for slot 1) with a
\* compressed sparse adjacency whatever size was declared; otherwise the
\* length of the first tensor lifted for the slot, in the message/aggregate
\* or the update collection.  A lifted tensor fails with the size-mismatch
\* error exactly when its length differs from that count.
C9_SlotSizeFixedPerCall == SlotSizeFixed(TRUE)

C9_Witness ==
  \E t \in Threads :
    /\ fr[t].pc = "raised" /\ fr[t].at = "L269" /\ fr[t].err = "ValueError:size"
    /\ fr[t].args.size.up = NoSize /\ isTensor(fr[t].args.index.up)
    /\ Len(fr[t].log.up) = 3
    /\ fr[t].log.up[1].ok /\ fr[t].log.up[1].len = 4
    /\ fr[t].log.up[3] = [dim |-> 0, len |-> 3, ok |-> FALSE]

\* C10: a step of propagate leaves the engine as __init__ made it and the
\* caller's adjacencies, declared sizes and bag as they were passed; it
\* changes the frame of one call only; and two calls with the same arguments
\* that both return, return the same value.
C10_NoRetainedStateNoInterference ==
  [][ /\ engine' = engine
      /\ \A t \in Threads :
           (fr[t].pc # "idle" /\ fr'[t].pc # "idle") => fr'[t].args = fr[t].args
      /\ \A t1 \in Threads : \A t2 \in Threads \ {t1} :
           fr'[t1] = fr[t1] \/ fr'[t2] = fr[t2]
      /\ \A t1 \in Threads : \A t2 \in Threads :
           ( /\ fr'[t1].pc = "returned" /\ fr'[t2].pc = "returned"
             /\ fr'[t1].args = fr'[t2].args )
           => fr'[t1].ret = fr'[t2].ret ]_vars

C10_Witness ==
  /\ mode = "reentrant"
  /\ fr[1].pc = "returned" /\ fr[2].pc = "L265"
  /\ fr[1].args.index.up = FanIndex /\ fr[2].args.index.up = FanAdjT
  /\ engine.fuse_up

\* The invocations of update a frame has made.
UpdateCalls(f) == SelectSeq(f.calls, LAMBDA c : c.fn = "update")

ReceivedByUpdate(f, n) ==
  LET merged == IF n \in DOMAIN f.coll.down THEN f.coll.down[n]
                ELSE IF n \in DOMAIN f.coll.up THEN f.coll.up[n] ELSE empty
      ps == engine.params.update
  IN  IF merged = empty
      THEN ps[CHOOSE p \in DOMAIN ps : ps[p].name = n].default
      ELSE merged

\* C12: no down-direction callable is invoked before an up-direction one,
\* and update is never followed by another callable; a call that returns has
\* invoked update exactly once, last, on (up_out, down_out) and on exactly
\* its declared names, each bound to the down collection's value when both
\* collections have the name.
C12_CallableOrder ==
  \A t \in Threads :
    LET f == fr[t]
    IN  /\ \A p \in DOMAIN f.calls : \A q \in DOMAIN f.calls :
             p < q => /\ ~(f.calls[p].direction = "down" /\ f.calls[q].direction = "up")
                      /\ f.calls[p].fn # "update"
        /\ (f.pc = "returned" =>
              /\ Len(UpdateCalls(f)) = 1
              /\ f.calls[Len(f.calls)] = Invocation("update", "both")
              /\ DOMAIN f.update_kwargs =
                   {engine.params.update[p].name : p \in DOMAIN engine.params.update}
              /\ \A n \in DOMAIN f.update_kwargs :
                   f.update_kwargs[n] = ReceivedByUpdate(f, n)
              /\ f.ret = update(f.out.up, f.out.down, f.update_kwargs[<<"x">>]).val)

C12_Witness ==
  \E t \in Threads :
    /\ fr[t].pc = "returned"
    /\ fr[t].calls = << Invocation("message", "up"), Invocation("aggregate", "up"),
                        Invocation("message", "down"), Invocation("aggregate", "down"),
                        Invocation("update", "both") >>
    /\ isSparseTensor(fr[t].args.index.up)
    /\ <<"up", "attr">> \in engine.update_user_args
    /\ fr[t].coll.up[<<"up", "attr">>] = None
    /\ fr[t].coll.down[<<"up", "attr">>] = IntVal(1)
    /\ fr[t].update_kwargs[<<"up", "attr">>] = IntVal(1)

\* The mappings __collect__ returned for a present adjacency.
CollectedPresent(f) == {c \in Collected(f) : isTensor(c.index) \/ isSparseTensor(c.index)}

\* C13: for a present adjacency <d>_index is bound to the adjacency object
\* itself, <d>_index_i and <d>_index_j to the target and source index
\* vectors, and the row-pointer, weight and type names are bound to a value
\* for compressed sparse form only.
C13_IndexIsAdjacency ==
  \A t \in Threads : \A c \in CollectedPresent(fr[t]) :
    LET d == c.direction
    IN  /\ c.out[<<d, "index">>] = c.index
        /\ c.out[<<d, "index", "i">>] =
             Vector("long", IF isTensor(c.index) THEN c.index.rows[TargetRow + 1]
                            ELSE c.index.row)
        /\ c.out[<<d, "index", "j">>] =
             Vector("long", IF isTensor(c.index) THEN c.index.rows[SourceRow + 1]
                            ELSE c.index.col)
        /\ \A n \in {<<d, "ptr">>, <<d, "weight">>, <<d, "type">>} :
             (n \in DOMAIN c.out /\ c.out[n] # empty) <=> isSparseTensor(c.index)

\* C13, amended: for a present adjacency <d>_index is bound to the target
\* index vector, the same value as <d>_index_i, and <d>_index_j to the source
\* index vector (rows 1 and 0 of an explicit index, rows 0 and 1 under
\* target_to_source; the row and column indices of a sparse tensor).  The
\* adjacency object itself is bound only for compressed sparse form, as
\* <d>_adj_t.  <d>_ptr, <d>_weight, <d>_attr and <d>_type are bound to the
\* sparse tensor's row pointer and stored value for compressed sparse form
\* only, there overriding the caller's value; for explicit-index form each
\* of these names is a key only if it was requested, bound to the caller's
\* value or the absent marker, and ptr and adj_t are None.
C13_DerivedIndexNames ==
  \A t \in Threads : \A c \in CollectedPresent(fr[t]) :
    LET d == c.direction
        f == fr[t]
    IN  /\ c.out[<<d, "index">>] = c.out[<<d, "index", "i">>]
        /\ c.out[<<d, "index", "i">>] =
             Vector("long", IF isTensor(c.index) THEN c.index.rows[TargetRow + 1]
                            ELSE c.index.row)
        /\ c.out[<<d, "index", "j">>] =
             Vector("long", IF isTensor(c.index) THEN c.index.rows[SourceRow + 1]
                            ELSE c.index.col)
        /\ IF isSparseTensor(c.index)
           THEN /\ c.out[<<d, "adj", "t">>] = c.index
                /\ c.out[<<d, "ptr">>] = Vector("long", c.index.rowptr)
                /\ \A n \in {<<d, "weight">>, <<d, "attr">>, <<d, "type">>} :
                     c.out[n] = c.index.value
                /\ c.out[<<"edge", "index">>] = None
           ELSE /\ \A n \in {<<d, "adj", "t">>, <<d, "ptr">>, <<d, "weight">>,
                            <<d, "attr">>, <<d, "type">>} :
                     /\ n \in DOMAIN c.out <=> n \in c.names
                     /\ n \in DOMAIN c.out => c.out[n] = get(f.args.kwargs, n, empty)
                /\ c.out[<<"ptr">>] = None /\ c.out[<<"adj", "t">>] = None

C13_Witness ==
  \E t \in Threads :
    /\ engine.flow = "source_to_target"
    /\ fr[t].args.index.up = FanIndex /\ fr[t].args.index.down = FanAdjT
    /\ fr[t].msg_coll.up # EmptyDict /\ fr[t].msg_coll.down # EmptyDict
    /\ fr[t].msg_coll.up[<<"up", "index">>] = Vector("long", <<1, 2, 2>>)
    /\ fr[t].msg_coll.up[<<"up", "index", "j">>] = Vector("long", <<0, 0, 1>>)
    /\ fr[t].msg_coll.down[<<"down", "adj", "t">>] = FanAdjT
    /\ fr[t].msg_coll.down[<<"down", "index">>] = Vector("long", <<1, 2, 2>>)

====
